---- MODULE Spec2Model ----
(***************************************************************************)
(* The four bracket-balance scripts of the repository: count_parens.py,   *)
(* count_curlies.py, count_balance.py and find_unmatched.py.  Each reads  *)
(* the lines of a text file and walks the lines of a range [start, end)   *)
(* character by character.  A behaviour is one run of one script on one   *)
(* file: the file content and the range are the inputs, one step is one   *)
(* turn of a for loop.                                                    *)
(***************************************************************************)
EXTENDS Integers, Sequences, FiniteSets

VARIABLES lines, start, end, script, pc, idx, pos,
          count, min_count, parens, curlies, out

vars == <<lines, start, end, script, pc, idx, pos,
          count, min_count, parens, curlies, out>>

\* Bounds of the inputs: lines per file, characters per file.
MaxLines == 2
MaxChars == 3

\* The characters of a file: the two delimiter pairs and one other character.
Chars == {"(", ")", "{", "}", "a"}

Scripts == {"count_parens", "count_curlies", "count_balance", "find_unmatched"}

\* Strings of exactly n characters.
RECURSIVE StrsOfLen(_)
StrsOfLen(n) ==
    IF n = 0 THEN {<<>>}
    ELSE {<<ch>> \o s : ch \in Chars, s \in StrsOfLen(n - 1)}

\* Files of exactly n lines holding at most k characters in all.
RECURSIVE DocsOf(_, _)
DocsOf(n, k) ==
    IF n = 0 THEN {<<>>}
    ELSE UNION {{<<ln>> \o rest : ln \in StrsOfLen(l), rest \in DocsOf(n - 1, k - l)}
                : l \in 0..k}

\* What Path(...).read_text(...).splitlines() can return.
Documents == UNION {DocsOf(n, MaxChars) : n \in 0..MaxLines}

Min(a, b) == IF a <= b THEN a ELSE b

\* lines[i] of the source: a Python list index, counted from 0, a negative
\* one counted from the end; out of bounds it raises IndexError.
InBounds(i) == -Len(lines) <= i /\ i < Len(lines)
Line(i) == IF i >= 0 THEN lines[i + 1] ELSE lines[Len(lines) + i + 1]

(***************************************************************************)
(* count_parens.py                                                         *)
(***************************************************************************)
\* Mutant of ParensCount: the elif branch is lost, ')' is not counted.
ParensCountNoDecrement(ch, n) == IF ch = "(" THEN n + 1 ELSE n

\* if ch == '(': count += 1 / elif ch == ')': count -= 1
ParensCount(ch, n) ==
    IF ch = "(" THEN n + 1
    ELSE IF ch = ")" THEN n - 1
    ELSE n

\* Mutant of ParensMin: max in place of min.
ParensMinAsMax(m, n) == IF m >= n THEN m ELSE n

\* min_count = min(min_count, count)
ParensMin(m, n) == Min(m, n)

\* range(start, end) is exhausted at i.
ParensRangeDone(i) == i >= end

\* for idx in range(start, end): line = lines[idx]; on exhaustion the print.
ParensNextLine ==
    /\ script = "count_parens"
    /\ pc = "for_idx"
    /\ IF ParensRangeDone(idx)
       THEN /\ pc' = "done"
            /\ out' = Append(out, <<"net", count, "min", min_count>>)
            /\ UNCHANGED <<idx, pos>>
       ELSE IF ~InBounds(idx)
       THEN /\ pc' = "IndexError"
            /\ UNCHANGED <<idx, pos, out>>
       ELSE IF Len(Line(idx)) = 0
       THEN /\ idx' = idx + 1
            /\ UNCHANGED <<pc, pos, out>>
       ELSE /\ pc' = "for_ch"
            /\ pos' = 1
            /\ UNCHANGED <<idx, out>>
    /\ UNCHANGED <<lines, start, end, script, count, min_count, parens, curlies>>

\* for ch in line: one character.
ParensNextChar ==
    /\ script = "count_parens"
    /\ pc = "for_ch"
    /\ count' = ParensCount(Line(idx)[pos], count)
    /\ min_count' = ParensMin(min_count, count')
    /\ IF pos = Len(Line(idx))
       THEN /\ idx' = idx + 1
            /\ pc' = "for_idx"
            /\ UNCHANGED pos
       ELSE /\ pos' = pos + 1
            /\ UNCHANGED <<idx, pc>>
    /\ UNCHANGED <<lines, start, end, script, parens, curlies, out>>

(***************************************************************************)
(* count_curlies.py                                                        *)
(***************************************************************************)
\* if ch == '{': count += 1 / elif ch == '}': count -= 1
CurliesCount(ch, n) ==
    IF ch = "{" THEN n + 1
    ELSE IF ch = "}" THEN n - 1
    ELSE n

\* Mutant of CurliesMin: the minimum is never updated.
CurliesMinNotUpdated(m, n) == m

\* min_count = min(min_count, count)
CurliesMin(m, n) == Min(m, n)

\* Mutant of CurliesRangeDone: the end of the range is taken as inclusive.
CurliesRangeDoneInclusive(i) == i > end

\* range(start, end) is exhausted at i.
CurliesRangeDone(i) == i >= end

\* for idx in range(start, end): ... lines[idx]; on exhaustion the print.
CurliesNextLine ==
    /\ script = "count_curlies"
    /\ pc = "for_idx"
    /\ IF CurliesRangeDone(idx)
       THEN /\ pc' = "done"
            /\ out' = Append(out, <<"curlies net", count, "min", min_count>>)
            /\ UNCHANGED <<idx, pos>>
       ELSE IF ~InBounds(idx)
       THEN /\ pc' = "IndexError"
            /\ UNCHANGED <<idx, pos, out>>
       ELSE IF Len(Line(idx)) = 0
       THEN /\ idx' = idx + 1
            /\ UNCHANGED <<pc, pos, out>>
       ELSE /\ pc' = "for_ch"
            /\ pos' = 1
            /\ UNCHANGED <<idx, out>>
    /\ UNCHANGED <<lines, start, end, script, count, min_count, parens, curlies>>

\* for ch in lines[idx]: one character.
CurliesNextChar ==
    /\ script = "count_curlies"
    /\ pc = "for_ch"
    /\ count' = CurliesCount(Line(idx)[pos], count)
    /\ min_count' = CurliesMin(min_count, count')
    /\ IF pos = Len(Line(idx))
       THEN /\ idx' = idx + 1
            /\ pc' = "for_idx"
            /\ UNCHANGED pos
       ELSE /\ pos' = pos + 1
            /\ UNCHANGED <<idx, pc>>
    /\ UNCHANGED <<lines, start, end, script, parens, curlies, out>>

(***************************************************************************)
(* count_balance.py: the parens loop, its print, the curlies loop, its     *)
(* print.                                                                  *)
(***************************************************************************)
\* if ch == '(': parens += 1 / elif ch == ')': parens -= 1
BalanceParens(ch, n) ==
    IF ch = "(" THEN n + 1
    ELSE IF ch = ")" THEN n - 1
    ELSE n

\* Mutant of BalanceCurlies: the open test also takes '('.
BalanceCurliesCountsParens(ch, n) ==
    IF ch \in {"{", "("} THEN n + 1
    ELSE IF ch = "}" THEN n - 1
    ELSE n

\* if ch == '{': curlies += 1 / elif ch == '}': curlies -= 1
BalanceCurlies(ch, n) ==
    IF ch = "{" THEN n + 1
    ELSE IF ch = "}" THEN n - 1
    ELSE n

\* Mutant of BalanceRangeDone: the end of the range is taken as inclusive.
BalanceRangeDoneInclusive(i) == i > end

\* range(start, end), of either loop, is exhausted at i.
BalanceRangeDone(i) == i >= end

\* First loop: for idx in range(start, end); on exhaustion print('paren net',
\* parens), curlies = 0 and the second loop's range(start, end).
BalanceParensNextLine ==
    /\ script = "count_balance"
    /\ pc = "for_idx"
    /\ IF BalanceRangeDone(idx)
       THEN /\ pc' = "for_idx2"
            /\ out' = Append(out, <<"paren net", parens>>)
            /\ idx' = start
            /\ UNCHANGED pos
       ELSE IF ~InBounds(idx)
       THEN /\ pc' = "IndexError"
            /\ UNCHANGED <<idx, pos, out>>
       ELSE IF Len(Line(idx)) = 0
       THEN /\ idx' = idx + 1
            /\ UNCHANGED <<pc, pos, out>>
       ELSE /\ pc' = "for_ch"
            /\ pos' = 1
            /\ UNCHANGED <<idx, out>>
    /\ UNCHANGED <<lines, start, end, script, count, min_count, parens, curlies>>

BalanceParensNextChar ==
    /\ script = "count_balance"
    /\ pc = "for_ch"
    /\ parens' = BalanceParens(Line(idx)[pos], parens)
    /\ IF pos = Len(Line(idx))
       THEN /\ idx' = idx + 1
            /\ pc' = "for_idx"
            /\ UNCHANGED pos
       ELSE /\ pos' = pos + 1
            /\ UNCHANGED <<idx, pc>>
    /\ UNCHANGED <<lines, start, end, script, count, min_count, curlies, out>>

\* Second loop: for idx in range(start, end); on exhaustion print('curlies
\* net', curlies).
BalanceCurliesNextLine ==
    /\ script = "count_balance"
    /\ pc = "for_idx2"
    /\ IF BalanceRangeDone(idx)
       THEN /\ pc' = "done"
            /\ out' = Append(out, <<"curlies net", curlies>>)
            /\ UNCHANGED <<idx, pos>>
       ELSE IF ~InBounds(idx)
       THEN /\ pc' = "IndexError"
            /\ UNCHANGED <<idx, pos, out>>
       ELSE IF Len(Line(idx)) = 0
       THEN /\ idx' = idx + 1
            /\ UNCHANGED <<pc, pos, out>>
       ELSE /\ pc' = "for_ch2"
            /\ pos' = 1
            /\ UNCHANGED <<idx, out>>
    /\ UNCHANGED <<lines, start, end, script, count, min_count, parens, curlies>>

BalanceCurliesNextChar ==
    /\ script = "count_balance"
    /\ pc = "for_ch2"
    /\ curlies' = BalanceCurlies(Line(idx)[pos], curlies)
    /\ IF pos = Len(Line(idx))
       THEN /\ idx' = idx + 1
            /\ pc' = "for_idx2"
            /\ UNCHANGED pos
       ELSE /\ pos' = pos + 1
            /\ UNCHANGED <<idx, pc>>
    /\ UNCHANGED <<lines, start, end, script, count, min_count, parens, out>>

(***************************************************************************)
(* find_unmatched.py                                                       *)
(***************************************************************************)
\* Mutant of UnmatchedCount: the two signs are swapped.
UnmatchedCountSwapped(ch, n) ==
    IF ch = "{" THEN n + 1
    ELSE IF ch = "}" THEN n - 1
    ELSE n

\* Mutant of UnmatchedCount: the elif branch is lost, '}' is not counted.
UnmatchedCountNoClose(ch, n) == IF ch = "{" THEN n - 1 ELSE n

\* if ch == '{': count -= 1 / elif ch == '}': count += 1
UnmatchedCount(ch, n) ==
    IF ch = "{" THEN n - 1
    ELSE IF ch = "}" THEN n + 1
    ELSE n

\* Mutant of UnmatchedFound: the count == 0 test is lost.
UnmatchedFoundAnyOpen(ch, n) == ch = "{"

\* if count == 0 (under if ch == '{'): print and raise SystemExit
UnmatchedFound(ch, n) == ch = "{" /\ n = 0

\* Mutant of UnmatchedRangeDone: range(end-1, start, -1), the first line of
\* the range is not scanned.
UnmatchedRangeDoneEarly(i) == i <= start

\* range(end-1, start-1, -1) is exhausted at i.
UnmatchedRangeDone(i) == i <= start - 1

\* for idx in range(end-1, start-1, -1): ... reversed(lines[idx]); on
\* exhaustion print('No unmatched { found').
UnmatchedNextLine ==
    /\ script = "find_unmatched"
    /\ pc = "for_idx"
    /\ IF UnmatchedRangeDone(idx)
       THEN /\ pc' = "done"
            /\ out' = Append(out, <<"No unmatched { found">>)
            /\ UNCHANGED <<idx, pos>>
       ELSE IF ~InBounds(idx)
       THEN /\ pc' = "IndexError"
            /\ UNCHANGED <<idx, pos, out>>
       ELSE IF Len(Line(idx)) = 0
       THEN /\ idx' = idx - 1
            /\ UNCHANGED <<pc, pos, out>>
       ELSE /\ pc' = "for_ch"
            /\ pos' = Len(Line(idx))
            /\ UNCHANGED <<idx, out>>
    /\ UNCHANGED <<lines, start, end, script, count, min_count, parens, curlies>>

\* for ch in reversed(lines[idx]): one character.
UnmatchedNextChar ==
    /\ script = "find_unmatched"
    /\ pc = "for_ch"
    /\ count' = UnmatchedCount(Line(idx)[pos], count)
    /\ IF UnmatchedFound(Line(idx)[pos], count')
       THEN /\ out' = Append(out, <<"Unmatched { likely opened at line", idx + 1>>)
            /\ pc' = "SystemExit"
            /\ UNCHANGED <<idx, pos>>
       ELSE IF pos = 1
       THEN /\ idx' = idx - 1
            /\ pc' = "for_idx"
            /\ UNCHANGED <<pos, out>>
       ELSE /\ pos' = pos - 1
            /\ UNCHANGED <<idx, pc, out>>
    /\ UNCHANGED <<lines, start, end, script, min_count, parens, curlies>>

(***************************************************************************)
(* The state after line 5 (and 6) of each script.                          *)
(***************************************************************************)
Init ==
    /\ lines \in Documents
    /\ start \in 0..(Len(lines) + 1)
    /\ end \in 0..(Len(lines) + 1)
    /\ script \in Scripts
    /\ pc = "for_idx"
    /\ idx = IF script = "find_unmatched" THEN end - 1 ELSE start
    /\ pos = 0
    /\ count = IF script = "find_unmatched" THEN 1 ELSE 0
    /\ min_count = 0
    /\ parens = 0
    /\ curlies = 0
    /\ out = <<>>

Next ==
    \/ ParensNextLine
    \/ ParensNextChar
    \/ CurliesNextLine
    \/ CurliesNextChar
    \/ BalanceParensNextLine
    \/ BalanceParensNextChar
    \/ BalanceCurliesNextLine
    \/ BalanceCurliesNextChar
    \/ UnmatchedNextLine
    \/ UnmatchedNextChar

Spec == Init /\ [][Next]_vars

\* A script is one thread of one process: it takes its next step as long as
\* it has one.
FairSpec == Spec /\ WF_vars(Next)

(***************************************************************************)
(* count_parens.py and count_curlies.py as functions of the range: the net *)
(* each prints for the lines s .. e-1, from a counter value n.             *)
(***************************************************************************)
RECURSIVE ParensLine(_, _, _)
ParensLine(line, j, n) ==
    IF j > Len(line) THEN n
    ELSE ParensLine(line, j + 1, ParensCount(line[j], n))

RECURSIVE ParensNet(_, _, _)
ParensNet(s, e, n) ==
    IF s >= e THEN n
    ELSE ParensNet(s + 1, e, ParensLine(Line(s), 1, n))

RECURSIVE CurliesLine(_, _, _)
CurliesLine(line, j, n) ==
    IF j > Len(line) THEN n
    ELSE CurliesLine(line, j + 1, CurliesCount(line[j], n))

RECURSIVE CurliesNet(_, _, _)
CurliesNet(s, e, n) ==
    IF s >= e THEN n
    ELSE CurliesNet(s + 1, e, CurliesLine(Line(s), 1, n))

(***************************************************************************)
(* Reference notions the properties are stated with; none is taken from   *)
(* the scripts.                                                           *)
(***************************************************************************)
\* The characters of lines s .. e-1 in file order, each with its line (from
\* 0) and its column (from 1).
RECURSIVE Flat(_, _)
Flat(s, e) ==
    IF s >= e THEN <<>>
    ELSE [j \in 1..Len(lines[s + 1]) |-> [ln |-> s, col |-> j, ch |-> lines[s + 1][j]]]
         \o Flat(s + 1, e)

\* Occurrences of ch among f[a .. b].
Occ(f, a, b, ch) == Cardinality({k \in a..b : f[k].ch = ch})

\* Opens minus closes among f[a .. b].
NetOf(f, a, b, o, c) == Occ(f, a, b, o) - Occ(f, a, b, c)

\* The least of a non-empty finite set of integers.
Least(S) == CHOOSE x \in S : \A y \in S : x <= y

\* The range lies in the file: 0 <= start <= end <= len(lines).
ValidRange == start <= end /\ end <= Len(lines)

\* The range of the run, as characters (of a range that raises nothing).
RangeChars == Flat(start, end)

Done == pc = "done"
Found == pc = "SystemExit"
Failed == pc = "IndexError"

(***************************************************************************)
(* C1: the forward scan ends with net = (occurrences of the open          *)
(* character) - (occurrences of the close character) in the lines of the  *)
(* range, for count_parens.py, count_curlies.py and both counters of      *)
(* count_balance.py, and that is the number printed; a valid range always *)
(* gets there (it raises nothing).                                        *)
(***************************************************************************)
C1_NetIsOpensMinusCloses ==
    /\ (ValidRange /\ script # "find_unmatched") => ~Failed
    /\ (Done /\ script = "count_parens") =>
          /\ count = NetOf(RangeChars, 1, Len(RangeChars), "(", ")")
          /\ out = << <<"net", count, "min", min_count>> >>
    /\ (Done /\ script = "count_curlies") =>
          /\ count = NetOf(RangeChars, 1, Len(RangeChars), "{", "}")
          /\ out = << <<"curlies net", count, "min", min_count>> >>
    /\ (Done /\ script = "count_balance") =>
          /\ parens = NetOf(RangeChars, 1, Len(RangeChars), "(", ")")
          /\ curlies = NetOf(RangeChars, 1, Len(RangeChars), "{", "}")
          /\ out = << <<"paren net", parens>>, <<"curlies net", curlies>> >>

\* The full range of a two-line file with two closes and one open counted.
C1_Witness ==
    /\ Done /\ script = "count_parens"
    /\ start = 0 /\ end = Len(lines) /\ Len(lines) = 2
    /\ Occ(RangeChars, 1, Len(RangeChars), "(") = 1
    /\ Occ(RangeChars, 1, Len(RangeChars), ")") = 2
    /\ count = -1

MinPrefixNet(f, o, c) == Least({NetOf(f, 1, k, o, c) : k \in 0..Len(f)})

(***************************************************************************)
(* C4: the minimum count_parens.py and count_curlies.py report is the     *)
(* least of 0 and the counter's value after each single character of the  *)
(* range, in file order.                                                  *)
(***************************************************************************)
C4_MinimumIsLeastPrefix ==
    /\ (Done /\ script = "count_parens") =>
          /\ min_count = MinPrefixNet(RangeChars, "(", ")")
          /\ out[1][4] = min_count
    /\ (Done /\ script = "count_curlies") =>
          /\ min_count = MinPrefixNet(RangeChars, "{", "}")
          /\ out[1][4] = min_count

\* A dip inside a line that its end does not show: the line ")(".
C4_Witness ==
    /\ Done /\ script = "count_parens"
    /\ lines = << <<")", "(">> >> /\ start = 0 /\ end = 1
    /\ count = 0 /\ min_count = -1

FirstTrackedIsClose(f, o, c) ==
    \E k \in 1..Len(f) :
        /\ f[k].ch = c
        /\ \A j \in 1..(k - 1) : f[j].ch \notin {o, c}

(***************************************************************************)
(* C5: in every state of the forward scan minimum <= counter, so          *)
(* minimum <= net in the result; and when the first tracked character of  *)
(* the range is the close delimiter the final minimum is <= 0.            *)
(***************************************************************************)
C5_MinimumAtMostCounter ==
    /\ script \in {"count_parens", "count_curlies"} => min_count <= count
    /\ (Done /\ script = "count_parens") =>
          /\ out[1][4] <= out[1][2]
          /\ FirstTrackedIsClose(RangeChars, "(", ")") => min_count <= 0
    /\ (Done /\ script = "count_curlies") =>
          /\ out[1][4] <= out[1][2]
          /\ FirstTrackedIsClose(RangeChars, "{", "}") => min_count <= 0

\* A range that starts with a close and ends above its minimum.
C5_Witness ==
    /\ Done /\ script = "count_curlies"
    /\ FirstTrackedIsClose(RangeChars, "{", "}")
    /\ min_count = -1 /\ count = 1

(***************************************************************************)
(* C8: on an empty range (start = end) the counting scripts print net 0   *)
(* and minimum 0 and find_unmatched.py prints 'No unmatched { found',     *)
(* whatever the file holds; nothing is read and nothing is raised.        *)
(***************************************************************************)
C8_EmptyRange ==
    start = end =>
        /\ pc \in {"for_idx", "for_idx2", "done"}
        /\ Done \/ ENABLED Next
        /\ (Done /\ script = "count_parens") => out = << <<"net", 0, "min", 0>> >>
        /\ (Done /\ script = "count_curlies") =>
              out = << <<"curlies net", 0, "min", 0>> >>
        /\ (Done /\ script = "count_balance") =>
              out = << <<"paren net", 0>>, <<"curlies net", 0>> >>
        /\ (Done /\ script = "find_unmatched") => out = << <<"No unmatched { found">> >>

\* An empty range inside a file that holds delimiters.
C8_Witness ==
    /\ start = end /\ start = 1 /\ Len(lines) = 2 /\ Done
    /\ script = "count_curlies"
    /\ lines[1] = <<"{">> /\ lines[2] = <<"}", "}">>
    /\ out = << <<"curlies net", 0, "min", 0>> >>

(***************************************************************************)
(* C2, as stated: when the forward net of the range for '{' '}' is        *)
(* exactly 1, find_unmatched.py reports a line L (idx, printed as idx+1)  *)
(* such that count_curlies.py over the range (start, L+1) gives a net of  *)
(* exactly 1.                                                             *)
(***************************************************************************)
C2_RecountIsExactlyOne ==
    (script = "find_unmatched" /\ Found /\ ValidRange /\ CurliesNet(start, end, 0) = 1) =>
        CurliesNet(start, idx + 1, 0) = 1

\* Some '{' or '}' of the reported line stands after the reported '{'.
DelimiterFollowsOnLine ==
    \E j \in (pos + 1)..Len(Line(idx)) : Line(idx)[j] \in {"{", "}"}

(***************************************************************************)
(* C2, amended: under the same condition a line is reported, and the      *)
(* recount over (start, L+1) gives a net of at least 1; it gives exactly  *)
(* 1 when no '{' or '}' follows the reported '{' on its line.             *)
(***************************************************************************)
C2_RecountIsAtLeastOne ==
    (script = "find_unmatched" /\ ValidRange /\ CurliesNet(start, end, 0) = 1) =>
        /\ ~Done
        /\ Found =>
              /\ out = << <<"Unmatched { likely opened at line", idx + 1>> >>
              /\ start <= idx /\ idx < end
              /\ CurliesNet(start, idx + 1, 0) >= 1
              /\ ~DelimiterFollowsOnLine => CurliesNet(start, idx + 1, 0) = 1

\* The reported '{' shares its line with a '{' that a later line closes.
C2_Witness ==
    /\ script = "find_unmatched" /\ Found
    /\ lines = << <<"{", "{">>, <<"}">> >> /\ start = 0 /\ end = 2
    /\ CurliesNet(start, end, 0) = 1
    /\ idx = 0 /\ pos = 1
    /\ CurliesNet(start, idx + 1, 0) = 2

(***************************************************************************)
(* Ordinary nested matching: the positions of f whose delimiter has no    *)
(* partner.  An open is pushed, a close pops the nearest open still       *)
(* pending, and is itself unmatched when none is pending.                 *)
(***************************************************************************)
RECURSIVE UnmatchedFrom(_, _, _, _, _)
UnmatchedFrom(f, k, stack, o, c) ==
    IF k > Len(f) THEN {stack[i] : i \in 1..Len(stack)}
    ELSE IF f[k].ch = o THEN UnmatchedFrom(f, k + 1, <<k>> \o stack, o, c)
    ELSE IF f[k].ch = c THEN
        IF stack = <<>> THEN {k} \cup UnmatchedFrom(f, k + 1, stack, o, c)
        ELSE UnmatchedFrom(f, k + 1, Tail(stack), o, c)
    ELSE UnmatchedFrom(f, k + 1, stack, o, c)

UnmatchedPositions(f, o, c) == UnmatchedFrom(f, 1, <<>>, o, c)

\* Where the character under the scan stands in the range's characters.
PosIndex(f) == CHOOSE k \in 1..Len(f) : f[k].ln = idx /\ f[k].col = pos

(***************************************************************************)
(* C3: when the net of the range for '{' '}' is exactly 1, the reverse    *)
(* scan stops on the innermost unmatched '{': the character it stops on   *)
(* is a '{' with no partner in the range under nested matching, every     *)
(* delimiter after it in the range has its partner (so it is the last     *)
(* unmatched '{'), and the line printed is that character's line, from 1. *)
(***************************************************************************)
C3_StopsOnInnermostUnmatched ==
    (script = "find_unmatched" /\ ValidRange
        /\ NetOf(RangeChars, 1, Len(RangeChars), "{", "}") = 1) =>
        /\ ~Done
        /\ Found =>
             LET f == RangeChars
                 U == UnmatchedPositions(f, "{", "}")
                 p == PosIndex(f)
             IN  /\ \E k \in 1..Len(f) : f[k].ln = idx /\ f[k].col = pos
                 /\ f[p].ch = "{"
                 /\ p \in U
                 /\ \A q \in (p + 1)..Len(f) : q \notin U
                 /\ out = << <<"Unmatched { likely opened at line", f[p].ln + 1>> >>

\* "{{}": the first '{' is the unmatched one, the second is closed.
C3_Witness ==
    /\ script = "find_unmatched" /\ Found
    /\ lines = << <<"{">>, <<"{", "}">> >> /\ start = 0 /\ end = 2
    /\ idx = 0 /\ pos = 1
    /\ UnmatchedPositions(RangeChars, "{", "}") = {1}
    /\ out = << <<"Unmatched { likely opened at line", 1>> >>

\* The state part of C6: what each state of a find_unmatched.py run shows.
C6_StateInv ==
    script = "find_unmatched" =>
        /\ ValidRange => ~Failed
        /\ (count = 0) <=> Found
        /\ Found =>
              /\ Line(idx)[pos] = "{"
              /\ out = << <<"Unmatched { likely opened at line", idx + 1>> >>
              /\ ~ENABLED Next
        /\ Done =>
              /\ idx <= start - 1
              /\ out = << <<"No unmatched { found">> >>
              /\ ~ENABLED Next
        /\ ~(Found \/ Done) => out = <<>>

(***************************************************************************)
(* C6: every run of find_unmatched.py on a valid range ends, in exactly   *)
(* one of two ways.  'Found' exactly when the counter (1 at first, -1 on  *)
(* '{', +1 on '}', lines and characters in reverse) reaches 0: the run    *)
(* stops there, on that '{', with the one line printed and no further     *)
(* step.  Otherwise 'exhausted', with 'No unmatched { found' printed once *)
(* the whole range is behind the scan.  Never both.                       *)
(***************************************************************************)
C6_FoundOrExhausted ==
    /\ []C6_StateInv
    /\ (script = "find_unmatched" /\ ValidRange) ~> (Found \/ Done)

\* A found run that stopped before the start of its range was reached.
C6_Witness ==
    /\ script = "find_unmatched" /\ Found /\ ValidRange
    /\ count = 0 /\ idx = 1 /\ start = 0 /\ end = 2
    /\ Len(Line(1)) = 2 /\ pos = 2

MalformedRange == start > Len(lines) \/ end > Len(lines) \/ start > end

RaisingRange == start < end /\ end > Len(lines)

C9_StateInv ==
    /\ (Done /\ script = "count_parens") => count = ParensNet(start, end, 0)
    /\ (Done /\ script = "count_curlies") => count = CurliesNet(start, end, 0)
    /\ (script = "count_balance" /\ pc \in {"for_idx2", "for_ch2", "done"}) =>
          out[1] = <<"paren net", ParensNet(start, end, 0)>>
    /\ (script = "count_balance" /\ Done) =>
          out[2] = <<"curlies net", CurliesNet(start, end, 0)>>

\* The step part of C9: which counter a step of count_balance.py leaves alone.
C9_Step ==
    script = "count_balance" =>
        /\ (pc = "for_ch" /\ Line(idx)[pos] \in {"{", "}"}) => parens' = parens
        /\ (pc = "for_ch2" /\ Line(idx)[pos] \in {"(", ")"}) => curlies' = curlies
        /\ pc \in {"for_idx", "for_ch"} => curlies' = curlies
        /\ pc \in {"for_idx2", "for_ch2"} => parens' = parens

(***************************************************************************)
(* C9: the 'paren net' and 'curlies net' of count_balance.py are the nets *)
(* count_parens.py and count_curlies.py compute on their own for the same *)
(* range, and in count_balance.py no character of one pair changes the    *)
(* counter of the other pair.                                             *)
(***************************************************************************)
C9_BalanceEqualsSingleCounts ==
    /\ []C9_StateInv
    /\ [][C9_Step]_vars

\* Both pairs in one range, with different nets.
C9_Witness ==
    /\ script = "count_balance" /\ Done
    /\ parens = 1 /\ curlies = -2
    /\ out = << <<"paren net", 1>>, <<"curlies net", -2>> >>

SuffixNet(f, k) == NetOf(f, k, Len(f), "{", "}")

(***************************************************************************)
(* C10: find_unmatched.py reports 'not found' exactly when no suffix of   *)
(* the range's characters holds more '{' than '}'; so with a forward net  *)
(* >= 1 it reports a line; the line reported is the line of the last      *)
(* position whose suffix holds exactly one more '{' than '}'.  While      *)
(* scanning the counter is >= 1; it is 0 only in the found state.         *)
(***************************************************************************)
C10_FoundIffPositiveSuffix ==
    script = "find_unmatched" =>
        /\ ~Found => count >= 1
        /\ Found => count = 0
        /\ Done => \A k \in 1..Len(RangeChars) : SuffixNet(RangeChars, k) <= 0
        /\ Found =>
              LET f == RangeChars
                  p == PosIndex(f)
              IN  /\ \E k \in 1..Len(f) : SuffixNet(f, k) > 0
                  /\ SuffixNet(f, p) = 1
                  /\ \A q \in (p + 1)..Len(f) : SuffixNet(f, q) # 1
                  /\ out = << <<"Unmatched { likely opened at line", f[p].ln + 1>> >>
        /\ (~RaisingRange /\ NetOf(RangeChars, 1, Len(RangeChars), "{", "}") >= 1) => ~Done

\* A net of 2: the line reported is the one of the last '{'.
C10_Witness ==
    /\ script = "find_unmatched" /\ Found
    /\ lines = << <<"{">>, <<"a", "{">> >> /\ start = 0 /\ end = 2
    /\ idx = 1 /\ pos = 2 /\ count = 0

====
